---- MODULE Spec2Model ----
(***************************************************************************)
(* py_decl.py: UF2 container unwrapping (UF2Reader), the binary-info table *)
(* parser (PyDecl.parse and its entry decoders) and the --verify step of   *)
(* __main__.                                                               *)
(*                                                                         *)
(* Bytes are integers 0..255, a file is a sequence of bytes and a stream   *)
(* position is a 0-based offset, as in Python.  TLC's integers are 32-bit  *)
(* signed, so a decoded uint32 is an Int only below 2^31: the inputs keep  *)
(* addresses and integer values below 2^31, identifiers are recognised on  *)
(* their four little-endian bytes, and the packed pin word is split into   *)
(* its low 7 bits and its upper 25 bits (the only way the code uses it).   *)
(* Text (the result of bytes.decode("utf-8")) is a sequence of code        *)
(* points; dictionary keys are tagged [kind, val] because Python mixes str *)
(* and int keys in one dict; a dictionary value v is [list |-> FALSE,      *)
(* items |-> <<v>>] and a Python list is [list |-> TRUE, items |-> ...].   *)
(***************************************************************************)
EXTENDS Integers, Sequences, FiniteSets, TLC

VARIABLES
    uf2,      \* the bytes of the .uf2 file read by UF2Reader.uf2_to_bin
    upos,     \* read position in the .uf2 file
    bin,      \* payload bytes yielded so far by uf2_to_bin (joined)
    image,    \* the bytes of the file PyDecl parses (self.file)
    reader,   \* "BytesIO" (UF2Reader) or "BufferedReader" (open(.., "rb"))
    pos,      \* self.file's stream position
    pc,       \* where the run is
    data,     \* bytes joined so far by the running read_until
    desc,     \* <<entries_start, entries_end, mapping_table>> once unpacked
    entries,  \* the unpacked entry pointers
    idx,      \* 1-based index of the next entry of the for loop
    parsed,   \* the dict built by parse
    result,   \* "pending", "None" (parse returned None) or "dict"
    exc,      \* "" or the name of the exception that ended the run
    errors,   \* block devices reported on stderr by the verify step
    status    \* process exit status, -1 while running

vars == <<uf2, upos, bin, image, reader, pos, pc, data, desc, entries, idx,
          parsed, result, exc, errors, status>>

-----------------------------------------------------------------------------
(* Constants of py_decl.py *)

BLOCK_SIZE == 512
DATA_SIZE == 256
HEADER_SIZE == 32
FLASH_START_ADDR == 268435456
BI_MAGIC == <<242, 235, 136, 113>>
BI_END == <<144, 163, 26, 231>>

TYPE_ID_AND_INT == 5
TYPE_ID_AND_STRING == 6
TYPE_BLOCK_DEVICE == 7
TYPE_PINS_WITH_FUNC == 8
TYPE_PINS_WITH_NAME == 9
TYPE_NAMED_GROUP == 10

\* The identifiers, as the four little-endian bytes struct.unpack("<I") reads.
ID_PROGRAM_NAME == <<134, 28, 3, 2>>
ID_PROGRAM_VERSION_STRING == <<58, 188, 169, 17>>
ID_PROGRAM_BUILD_DATE_STRING == <<84, 34, 162, 157>>
ID_BINARY_END == <<222, 101, 244, 104>>
ID_PROGRAM_URL == <<154, 35, 86, 24>>
ID_PROGRAM_DESCRIPTION == <<25, 124, 160, 182>>
ID_PROGRAM_FEATURE == <<83, 180, 244, 161>>
ID_PROGRAM_BUILD_ATTRIBUTE == <<211, 240, 117, 66>>
ID_SDK_VERSION == <<171, 179, 96, 83>>
ID_PICO_BOARD == <<187, 255, 60, 182>>
ID_BOOT2_NAME == <<225, 130, 136, 127>>

\* IDS with data_id_to_typename applied: the name with its spaces removed.
IDS ==
    (ID_PROGRAM_NAME :> "ProgramName") @@
    (ID_PROGRAM_VERSION_STRING :> "ProgramVersion") @@
    (ID_PROGRAM_BUILD_DATE_STRING :> "BuildDate") @@
    (ID_BINARY_END :> "BinaryEndAddress") @@
    (ID_PROGRAM_URL :> "ProgramURL") @@
    (ID_PROGRAM_DESCRIPTION :> "ProgramDescription") @@
    (ID_PROGRAM_FEATURE :> "ProgramFeature") @@
    (ID_PROGRAM_BUILD_ATTRIBUTE :> "ProgramBuildAttribute") @@
    (ID_SDK_VERSION :> "SDKVersion") @@
    (ID_PICO_BOARD :> "PicoBoard") @@
    (ID_BOOT2_NAME :> "BootStage2Name")

\* GPIO_FUNCS.get(func): the name, or Python's None for a code not in the table.
GPIO_FUNCS(func) ==
    CASE func = 0 -> "XIP"
      [] func = 1 -> "SPI"
      [] func = 2 -> "UART"
      [] func = 3 -> "I2C"
      [] func = 4 -> "PWM"
      [] func = 5 -> "SIO"
      [] func = 6 -> "PIO0"
      [] func = 7 -> "PIO1"
      [] func = 8 -> "GPCK"
      [] func = 9 -> "USB"
      [] func = 15 -> "NULL"
      [] OTHER -> "None"

ALWAYS_A_LIST == {"NamedGroup", "BlockDevice", "ProgramFeature"}

-----------------------------------------------------------------------------
(* Bytes and streams *)

Min(a, b) == IF a < b THEN a ELSE b
Max(a, b) == IF a > b THEN a ELSE b

\* Python's s[a:b] for 0 <= a <= b.
Slice(s, a, b) == SubSeq(s, a + 1, Min(b, Len(s)))

\* file.read(n) at position p, n >= 0: the bytes there are, at most n.
Read(f, p, n) == IF p >= Len(f) THEN <<>> ELSE Slice(f, p, p + n)

\* struct.unpack("<I", b) and struct.unpack("<H", b)
U32(b) == b[1] + 256 * b[2] + 65536 * b[3] + 16777216 * b[4]
U16(b) == b[1] + 256 * b[2]


\* The seek of a negative offset: io.BytesIO raises ValueError, a file opened
\* with open(.., "rb") raises OSError.
SeekError(rd) == IF rd = "BytesIO" THEN "ValueError" ELSE "OSError"

IsCont(x) == x >= 128 /\ x <= 191

\* bytes.decode("utf-8") from 1-based index i on: [ok, text], text the code
\* points; ok is FALSE where Python raises UnicodeDecodeError.
RECURSIVE Utf8From(_, _)
Utf8From(b, i) ==
    IF i > Len(b) THEN [ok |-> TRUE, text |-> <<>>]
    ELSE LET b0 == b[i]
             n == CASE b0 < 128 -> 1
                    [] b0 >= 194 /\ b0 <= 223 -> 2
                    [] b0 >= 224 /\ b0 <= 239 -> 3
                    [] b0 >= 240 /\ b0 <= 244 -> 4
                    [] OTHER -> 0
             b1 == IF i + 1 <= Len(b) THEN b[i + 1] ELSE 0
             b2 == IF i + 2 <= Len(b) THEN b[i + 2] ELSE 0
             b3 == IF i + 3 <= Len(b) THEN b[i + 3] ELSE 0
             lo1 == CASE b0 = 224 -> 160 [] b0 = 240 -> 144 [] OTHER -> 128
             hi1 == CASE b0 = 237 -> 159 [] b0 = 244 -> 143 [] OTHER -> 191
             valid == /\ n > 0
                      /\ i + n - 1 <= Len(b)
                      /\ n >= 2 => (b1 >= lo1 /\ b1 <= hi1)
                      /\ n >= 3 => IsCont(b2)
                      /\ n >= 4 => IsCont(b3)
             cp == CASE n = 1 -> b0
                     [] n = 2 -> (b0 % 32) * 64 + (b1 % 64)
                     [] n = 3 -> (b0 % 16) * 4096 + (b1 % 64) * 64 + (b2 % 64)
                     [] OTHER -> (b0 % 8) * 262144 + (b1 % 64) * 4096
                                 + (b2 % 64) * 64 + (b3 % 64)
         IN IF ~valid THEN [ok |-> FALSE, text |-> <<>>]
            ELSE LET rest == Utf8From(b, i + n)
                 IN [ok |-> rest.ok, text |-> <<cp>> \o rest.text]

Utf8Decode(b) == Utf8From(b, 1)

-----------------------------------------------------------------------------
(* PyDecl: address translation and string lookup *)

addr_to_bin_offset(addr) == addr - FLASH_START_ADDR

\* data_id in IDS.keys()
is_valid_data_id(id) == id \in DOMAIN IDS

\* The dictionary keys: a str or an int.
StrKey(s) == [kind |-> "str", val |-> s]
IntKey(n) == [kind |-> "int", val |-> n]

\* The key both ID decoders return: the type name of a known identifier, the
\* raw integer otherwise.
IdKey(id) == IF is_valid_data_id(id) THEN StrKey(IDS[id]) ELSE IntKey(U32(id))

\* Outcomes of a decoder: a (key, value) pair, None, an exception that
\* propagates, or a read_until that has reached the end of the file without
\* its delimiter and goes on reading there (ReadUntil and OutOfMemory say how
\* that loop goes on and ends).  pos is the stream position it leaves.
Pair(k, v, p) == [status |-> "pair", k |-> k, v |-> v, pos |-> p]
NoPair(p) == [status |-> "none", pos |-> p]
Raise(e, p) == [status |-> "raise", exc |-> e, pos |-> p]
Hang(p) == [status |-> "hang", pos |-> p]

\* The offsets >= off that hold a zero byte.
NulsFrom(f, off) == {j \in off .. Len(f) - 1 : f[j + 1] = 0}

\* lookup_string(address) with the stream at p: seek, read_until(b"\x00") one
\* byte at a time, decode.  A seek to a negative offset raises and leaves the
\* stream at p.  With no zero byte before the end of the file the loop of
\* read_until does not end there: read() yields b"", which is not the delimiter.
lookup_string(f, rd, p, address) ==
    LET offset == addr_to_bin_offset(address)
    IN IF offset < 0 THEN Raise(SeekError(rd), p)
       ELSE IF NulsFrom(f, offset) = {} THEN Hang(Max(offset, Len(f)))
       ELSE LET j == CHOOSE n \in NulsFrom(f, offset) :
                         \A m \in NulsFrom(f, offset) : n <= m
                dec == Utf8Decode(Slice(f, offset, j))
            IN IF dec.ok THEN [status |-> "ok", text |-> dec.text, pos |-> j + 1]
               ELSE Raise("UnicodeDecodeError", j + 1)

-----------------------------------------------------------------------------
(* PyDecl: the entry decoders.  f is the file, rd its reader kind, p the     *)
(* stream position after the 4-byte discriminant.                            *)

\* Scalar values keep their Python type.
IntVal(n) == [type |-> "int", val |-> n]
StrVal(s) == [type |-> "str", val |-> s]

_parse_type_id_and_int(f, rd, p) ==
    LET b == Read(f, p, 8)
    IN IF Len(b) # 8 THEN Raise("struct.error", p + Len(b))
       ELSE Pair(IdKey(SubSeq(b, 1, 4)), IntVal(U32(SubSeq(b, 5, 8))), p + 8)

_parse_type_id_and_str(f, rd, p) ==
    LET b == Read(f, p, 8)
    IN IF Len(b) # 8 THEN Raise("struct.error", p + Len(b))
       ELSE LET s == lookup_string(f, rd, p + 8, U32(SubSeq(b, 5, 8)))
            IN IF s.status # "ok" THEN s
               ELSE Pair(IdKey(SubSeq(b, 1, 4)), StrVal(s.text), s.pos)

_parse_block_device(f, rd, p) ==
    LET b == Read(f, p, 18)
    IN IF Len(b) # 18 THEN Raise("struct.error", p + Len(b))
       ELSE LET s == lookup_string(f, rd, p + 18, U32(SubSeq(b, 1, 4)))
            IN IF s.status # "ok" THEN s
               ELSE Pair(StrKey("BlockDevice"),
                         [name |-> s.text,
                          address |-> U32(SubSeq(b, 5, 8)),
                          size |-> U32(SubSeq(b, 9, 12)),
                          flags |-> U16(SubSeq(b, 17, 18))],
                         s.pos)

_parse_named_group(f, rd, p) ==
    LET b == Read(f, p, 16)
    IN IF Len(b) # 16 THEN Raise("struct.error", p + Len(b))
       ELSE LET s == lookup_string(f, rd, p + 16, U32(SubSeq(b, 13, 16)))
            IN IF s.status # "ok" THEN s
               ELSE Pair(StrKey("NamedGroup"),
                         [label |-> s.text,
                          parent |-> U32(SubSeq(b, 1, 4)),
                          flags |-> U16(SubSeq(b, 5, 6)),
                          tag |-> U16(SubSeq(b, 7, 8)),
                          id |-> U32(SubSeq(b, 9, 12))],
                         s.pos)

\* pin_encoding & 0b1111111 and pin_encoding >> 7 of the word in bytes b.
Low7(b) == b[1] % 128
Shr7(b) == (b[1] \div 128) + 2 * b[2] + 512 * b[3] + 131072 * b[4]

\* IndividualPins with the loop one turn short: the fifth field is not read.
IndividualPinsFourFields(pe) == {(pe \div (32 ^ i)) % 32 : i \in 0 .. 3}

\* The five 5-bit fields read by the loop of encoding type 1.
IndividualPins(pe) == {(pe \div (32 ^ i)) % 32 : i \in 0 .. 4}

\* list(range(pin_start, pin_end + 1)) of encoding type 2.
RangePins(pe) == ((pe \div 32) % 32) .. (pe % 32)

_parse_pins_with_func(f, rd, p) ==
    LET b == Read(f, p, 4)
    IN IF Len(b) # 4 THEN Raise("struct.error", p + Len(b))
       ELSE LET encoding_type == Low7(b) % 8
                func == Low7(b) \div 8
                func_name == GPIO_FUNCS(func)
                pin_encoding == Shr7(b)
                pins == CASE encoding_type = 1 -> IndividualPins(pin_encoding)
                          [] encoding_type = 2 -> RangePins(pin_encoding)
                          [] OTHER -> {}
            IN Pair(StrKey("Pins"),
                    [pin \in pins |-> [function |-> func_name]], p + 4)

\* Bit i of the little-endian word in bytes b.
Bit(b, i) == (b[(i \div 8) + 1] \div (2 ^ (i % 8))) % 2

_parse_pins_with_name(f, rd, p) ==
    LET b == Read(f, p, 8)
    IN IF Len(b) # 8 THEN Raise("struct.error", p + Len(b))
       ELSE LET s == lookup_string(f, rd, p + 8, U32(SubSeq(b, 5, 8)))
                set == {i \in 0 .. 31 : Bit(b, i) = 1}
            IN IF s.status # "ok" THEN s
               ELSE IF set = {} THEN Raise("ValueError", s.pos)
               ELSE LET pin_no == CHOOSE i \in set : \A j \in set : i <= j
                    IN Pair(StrKey("Pins"),
                            [pin \in {pin_no} |-> [name |-> s.text]], s.pos)

\* include_tags, as text
IncludeTags == {<<82, 80>>, <<77, 80>>}

\* self.entry_parsers: the type codes with a decoder
EntryParsers ==
    {TYPE_ID_AND_INT, TYPE_ID_AND_STRING, TYPE_BLOCK_DEVICE, TYPE_NAMED_GROUP,
     TYPE_PINS_WITH_FUNC, TYPE_PINS_WITH_NAME}

\* tag.decode("utf-8") in include_tags; the decode raises on invalid UTF-8.
TagCheck(tag) ==
    LET dec == Utf8Decode(tag)
    IN IF ~dec.ok THEN "UnicodeDecodeError"
       ELSE IF dec.text \in IncludeTags THEN "in" ELSE "out"

parse_entry(f, rd, p) ==
    LET h == Read(f, p, 4)
    IN IF Len(h) # 4 THEN Raise("struct.error", p + Len(h))
       ELSE LET data_type == U16(SubSeq(h, 1, 2))
                tag == TagCheck(SubSeq(h, 3, 4))
            IN IF tag = "UnicodeDecodeError" THEN Raise(tag, p + 4)
               ELSE IF tag = "out" THEN NoPair(p + 4)
               ELSE IF data_type \notin EntryParsers THEN NoPair(p + 4)
               ELSE CASE data_type = TYPE_ID_AND_INT ->
                             _parse_type_id_and_int(f, rd, p + 4)
                      [] data_type = TYPE_ID_AND_STRING ->
                             _parse_type_id_and_str(f, rd, p + 4)
                      [] data_type = TYPE_BLOCK_DEVICE ->
                             _parse_block_device(f, rd, p + 4)
                      [] data_type = TYPE_NAMED_GROUP ->
                             _parse_named_group(f, rd, p + 4)
                      [] data_type = TYPE_PINS_WITH_FUNC ->
                             _parse_pins_with_func(f, rd, p + 4)
                      [] data_type = TYPE_PINS_WITH_NAME ->
                             _parse_pins_with_name(f, rd, p + 4)

-----------------------------------------------------------------------------
(* PyDecl.parse: folding the pairs, moving data into the named groups *)

Scalar(v) == [list |-> FALSE, items |-> <<v>>]
List(vs) == [list |-> TRUE, items |-> vs]

PinsKey == StrKey("Pins")
GroupKey == StrKey("NamedGroup")

\* dict.update: every key of v replaces the entry of the same key.
DictUpdate(old, v) ==
    [pin \in (DOMAIN old) \cup (DOMAIN v) |->
        IF pin \in DOMAIN v THEN v[pin] ELSE old[pin]]

\* Fold with the list case dropped: a third value starts a new pair with the
\* list as its first element.
FoldAlwaysPairs(d, k, v) ==
    IF k \in DOMAIN d
    THEN IF k = PinsKey
         THEN [d EXCEPT ![k] = Scalar(DictUpdate(d[k].items[1], v))]
         ELSE [d EXCEPT ![k] = List(<<d[k].items[Len(d[k].items)], v>>)]
    ELSE [x \in (DOMAIN d) \cup {k} |->
            IF x # k THEN d[x]
            ELSE IF k.kind = "str" /\ k.val \in ALWAYS_A_LIST
                 THEN List(<<v>>) ELSE Scalar(v)]

\* The body of "if (entry := self.parse_entry()) is not None" for pair (k, v).
Fold(d, k, v) ==
    IF k \in DOMAIN d
    THEN IF k = PinsKey
         THEN [d EXCEPT ![k] = Scalar(DictUpdate(d[k].items[1], v))]
         ELSE IF d[k].list
              THEN [d EXCEPT ![k] = List(Append(d[k].items, v))]
              ELSE [d EXCEPT ![k] = List(<<d[k].items[1], v>>)]
    ELSE [x \in (DOMAIN d) \cup {k} |->
            IF x # k THEN d[x]
            ELSE IF k.kind = "str" /\ k.val \in ALWAYS_A_LIST
                 THEN List(<<v>>) ELSE Scalar(v)]

\* The loop over parsed["NamedGroup"] from group i on: a group whose id is a
\* key of the dict takes that key's value as its "data" and the key is deleted.
RECURSIVE MoveIntoGroups(_, _)
MoveIntoGroups(d, i) ==
    IF i > Len(d[GroupKey].items) THEN d
    ELSE LET group == d[GroupKey].items[i]
             k == IntKey(group.id)
         IN IF k \in DOMAIN d
            THEN MoveIntoGroups(
                    [x \in (DOMAIN d) \ {k} |->
                        IF x = GroupKey
                        THEN List([d[GroupKey].items EXCEPT
                                      ![i] = [data |-> d[k]] @@ group])
                        ELSE d[x]],
                    i + 1)
            ELSE MoveIntoGroups(d, i + 1)

\* The loop with "del parsed[group["id"]]" left out: every group of the same id
\* takes the data and the key stays at the top level.
RECURSIVE CopyIntoGroups(_, _)
CopyIntoGroups(d, i) ==
    IF i > Len(d[GroupKey].items) THEN d
    ELSE LET group == d[GroupKey].items[i]
             k == IntKey(group.id)
         IN IF k \in DOMAIN d
            THEN CopyIntoGroups(
                    [d EXCEPT ![GroupKey] =
                        List([d[GroupKey].items EXCEPT ![i] = [data |-> d[k]] @@ group])],
                    i + 1)
            ELSE CopyIntoGroups(d, i + 1)

ReattachWithoutDelete(d) == IF GroupKey \in DOMAIN d THEN CopyIntoGroups(d, 1) ELSE d

Reattach(d) == IF GroupKey \in DOMAIN d THEN MoveIntoGroups(d, 1) ELSE d

-----------------------------------------------------------------------------
(* __main__: the --verify step *)

BinaryEndKey == StrKey("BinaryEndAddress")
BlockDeviceKey == StrKey("BlockDevice")

\* parsed.get("BlockDevice", [])
BlockDevices(d) == IF BlockDeviceKey \in DOMAIN d THEN d[BlockDeviceKey].items ELSE <<>>

\* parsed.get("BinaryEndAddress", 0) is an int: absent, or one ID & Int entry.
\* A repeated entry makes it a list and an ID & Str entry a str; comparing an
\* int with either raises TypeError.
BinaryEndIsInt(d) ==
    BinaryEndKey \in DOMAIN d =>
        (~d[BinaryEndKey].list /\ d[BinaryEndKey].items[1].type = "int")

BinaryEnd(d) == IF BinaryEndKey \in DOMAIN d THEN d[BinaryEndKey].items[1].val ELSE 0

\* block_device.get("address") < binary_end
Overlaps(block_addr, binary_end) == block_addr < binary_end

\* The block devices the loop reports, in order.
Overlapping(d) ==
    SelectSeq(BlockDevices(d), LAMBDA bd : Overlaps(bd.address, BinaryEnd(d)))

-----------------------------------------------------------------------------
(* UF2Reader.uf2_to_bin *)

\* The payload slice with the end not offset by the header: data[32:256].
PayloadShort(blk) == Slice(blk, HEADER_SIZE, DATA_SIZE)

\* data[HEADER_SIZE:HEADER_SIZE + DATA_SIZE]
Payload(blk) == Slice(blk, HEADER_SIZE, HEADER_SIZE + DATA_SIZE)

\* One turn of "while data := file.read(BLOCK_SIZE)": the slice of the block
\* read is yielded; an empty read ends the generator.
Uf2Read ==
    /\ pc = "uf2"
    /\ LET blk == Read(uf2, upos, BLOCK_SIZE)
       IN IF blk = <<>>
          THEN /\ pc' = "uf2_done"
               /\ UNCHANGED <<upos, bin>>
          ELSE /\ bin' = bin \o Payload(blk)
               /\ upos' = upos + Len(blk)
               /\ pc' = pc
    /\ UNCHANGED <<uf2, image, reader, pos, data, desc, entries, idx, parsed,
                   result, exc, errors, status>>

-----------------------------------------------------------------------------
(* PyDecl.parse, step by step *)

\* The delimiter of the read_until running at pc.
Delimiter(at) ==
    CASE at = "read_magic" -> BI_MAGIC
      [] at = "read_end" -> BI_END
      [] at = "lookup_string" -> <<0>>

\* _read_until as a sliding window: a chunk that is not the delimiter moves the
\* stream on by one byte only.
ReadUntilSliding ==
    /\ pc \in {"read_magic", "read_end", "lookup_string"}
    /\ LET chunk == Read(image, pos, Len(Delimiter(pc)))
       IN IF chunk = Delimiter(pc)
          THEN /\ pos' = pos + Len(chunk)
               /\ pc' = IF pc = "read_magic" THEN "read_end" ELSE "descriptor"
               /\ data' = IF pc = "read_magic" THEN <<>> ELSE data
          ELSE /\ pos' = pos + Min(1, Len(chunk))
               /\ data' = data \o SubSeq(chunk, 1, Min(1, Len(chunk)))
               /\ pc' = pc
    /\ UNCHANGED <<uf2, upos, bin, image, reader, desc, entries, idx, parsed,
                   result, exc, errors, status>>

\* One turn of the loop of _read_until: a chunk as long as the delimiter is
\* read; the delimiter ends the loop, any other chunk (the short or empty one
\* read at the end of the file too) is yielded and the loop goes on.  At the
\* end of the file a turn reads b"" and changes nothing but the length of the
\* list that join is building (see OutOfMemory).  pc "lookup_string" is a
\* lookup_string that found no zero byte up to the end of the file.
ReadUntil ==
    /\ pc \in {"read_magic", "read_end", "lookup_string"}
    /\ LET chunk == Read(image, pos, Len(Delimiter(pc)))
       IN IF chunk = Delimiter(pc)
          THEN /\ pos' = pos + Len(chunk)
               /\ pc' = IF pc = "read_magic" THEN "read_end" ELSE "descriptor"
               /\ data' = IF pc = "read_magic" THEN <<>> ELSE data
          ELSE /\ pos' = pos + Len(chunk)
               /\ data' = data \o chunk
               /\ pc' = pc
    /\ UNCHANGED <<uf2, upos, bin, image, reader, desc, entries, idx, parsed,
                   result, exc, errors, status>>

\* An uncaught exception ends the process with a traceback and status 1.
Raised(e) ==
    /\ exc' = e
    /\ pc' = "raised"
    /\ status' = 1

\* b"".join(self._read_until(delimiter)) with the stream at the end of the
\* file: join keeps every b"" the generator yields, so the loop runs for as
\* long as memory is granted.  When it is refused the MemoryError propagates
\* out of parse; when the system ends the process instead there is no
\* traceback and the status is that of the kill signal (128 + 9).
OutOfMemory ==
    /\ pc \in {"read_magic", "read_end", "lookup_string"}
    /\ Read(image, pos, Len(Delimiter(pc))) = <<>>
    /\ \/ Raised("MemoryError")
       \/ /\ pc' = "killed"
          /\ status' = 137
          /\ UNCHANGED exc
    /\ UNCHANGED <<uf2, upos, bin, image, reader, pos, data, desc, entries, idx,
                   parsed, result, errors>>

\* file.read(n) for the entry table: a negative n reads to the end of a BytesIO;
\* a BufferedReader takes -1 so and raises ValueError below it.
ReadTable(f, rd, p, n) ==
    IF n >= 0 THEN [ok |-> TRUE, bytes |-> Read(f, p, n)]
    ELSE IF rd = "BytesIO" \/ n = -1 THEN [ok |-> TRUE, bytes |-> Read(f, p, Len(f))]
    ELSE [ok |-> FALSE, bytes |-> <<>>]

\* struct.unpack("I" * n, b) for Len(b) = 4 * n
UnpackWords(b) == [i \in 1 .. (Len(b) \div 4) |-> U32(SubSeq(b, 4 * i - 3, 4 * i))]

\* Lines 166-194: the descriptor record and the entry table.
Descriptor ==
    /\ pc = "descriptor"
    /\ IF Len(data) # 12
       THEN /\ result' = "None"
            /\ pc' = "main"
            /\ UNCHANGED <<pos, desc, entries, exc, status>>
       ELSE LET d == UnpackWords(data)
                entries_start == addr_to_bin_offset(d[1])
                entries_end == addr_to_bin_offset(d[2])
                entries_bytes_len == entries_end - entries_start
                entries_len == entries_bytes_len \div 4
                rd == ReadTable(image, reader, entries_start, entries_bytes_len)
            IN /\ desc' = d
               /\ IF entries_start < 0
                  THEN /\ Raised(SeekError(reader))
                       /\ UNCHANGED <<pos, entries, result>>
                  ELSE IF ~rd.ok
                  THEN /\ Raised("ValueError")
                       /\ pos' = entries_start
                       /\ UNCHANGED <<entries, result>>
                  ELSE IF Len(rd.bytes) # entries_bytes_len
                  THEN /\ result' = "None"
                       /\ pc' = "main"
                       /\ pos' = entries_start + Len(rd.bytes)
                       /\ UNCHANGED <<entries, exc, status>>
                  ELSE IF Len(rd.bytes) # 4 * entries_len
                  THEN /\ Raised("struct.error")
                       /\ pos' = entries_start + Len(rd.bytes)
                       /\ UNCHANGED <<entries, result>>
                  ELSE /\ entries' = UnpackWords(rd.bytes)
                       /\ pc' = "entries"
                       /\ pos' = entries_start + Len(rd.bytes)
                       /\ UNCHANGED <<result, exc, status>>
    /\ UNCHANGED <<uf2, upos, bin, image, reader, data, idx, parsed, errors>>

\* One turn of "for entry in entries" (lines 196-217).
FoldEntry ==
    /\ pc = "entries"
    /\ idx <= Len(entries)
    /\ LET entry_offset == addr_to_bin_offset(entries[idx])
           r == parse_entry(image, reader, entry_offset)
       IN IF entry_offset < 0
          THEN /\ Raised(SeekError(reader))
               /\ UNCHANGED <<pos, idx, parsed>>
          ELSE CASE r.status = "raise" ->
                      /\ Raised(r.exc)
                      /\ pos' = r.pos
                      /\ UNCHANGED <<idx, parsed>>
                 [] r.status = "hang" ->
                      /\ pc' = "lookup_string"
                      /\ pos' = r.pos
                      /\ UNCHANGED <<idx, parsed, exc, status>>
                 [] r.status = "none" ->
                      /\ idx' = idx + 1
                      /\ pos' = r.pos
                      /\ UNCHANGED <<pc, parsed, exc, status>>
                 [] r.status = "pair" ->
                      /\ parsed' = Fold(parsed, r.k, r.v)
                      /\ idx' = idx + 1
                      /\ pos' = r.pos
                      /\ UNCHANGED <<pc, exc, status>>
    /\ UNCHANGED <<uf2, upos, bin, image, reader, data, desc, entries, result,
                   errors>>

\* Lines 219-226: after the loop, the named groups take their data and the
\* dict is returned.
Return ==
    /\ pc = "entries"
    /\ idx > Len(entries)
    /\ parsed' = Reattach(parsed)
    /\ result' = "dict"
    /\ pc' = "main"
    /\ UNCHANGED <<uf2, upos, bin, image, reader, pos, data, desc, entries, idx,
                   exc, errors, status>>

-----------------------------------------------------------------------------
(* __main__ for one file, run with --verify *)

\* Lines 375-377 and 391: parse returned None; the file is skipped and the run
\* ends with status 0.
ParseFailed ==
    /\ pc = "main"
    /\ result = "None"
    /\ status' = 0
    /\ pc' = "exit"
    /\ UNCHANGED <<uf2, upos, bin, image, reader, pos, data, desc, entries, idx,
                   parsed, result, exc, errors>>

\* Lines 382-391: every block device below the binary end is reported and the
\* run ends with status 1 if any was.  The first comparison raises TypeError
\* when the binary end is not an int.
Verify ==
    /\ pc = "main"
    /\ result = "dict"
    /\ IF BlockDevices(parsed) # <<>> /\ ~BinaryEndIsInt(parsed)
       THEN /\ Raised("TypeError")
            /\ UNCHANGED errors
       ELSE /\ errors' = IF BlockDevices(parsed) = <<>> THEN <<>>
                         ELSE Overlapping(parsed)
            /\ status' = IF errors' # <<>> THEN 1 ELSE 0
            /\ pc' = "exit"
            /\ UNCHANGED exc
    /\ UNCHANGED <<uf2, upos, bin, image, reader, pos, data, desc, entries, idx,
                   parsed, result>>

Next ==
    ReadUntil \/ OutOfMemory \/ Descriptor \/ FoldEntry \/ Return \/ ParseFailed
    \/ Verify

-----------------------------------------------------------------------------
(* The files the runs start from.  A file is                                 *)
(*   junk prefix, start marker, descriptor (or junk), end marker,            *)
(*   a string pool, the entry-pointer table, the entry records.              *)

MaxPrefix == 4
MaxEntries == 3
MaxBlocks == 2

LE16(n) == <<n % 256, n \div 256>>
LE32(n) == <<n % 256, (n \div 256) % 256, (n \div 65536) % 256, n \div 16777216>>

Junk(n) == [i \in 1 .. n |-> 17]

RECURSIVE Concat(_)
Concat(ss) == IF ss = <<>> THEN <<>> ELSE Head(ss) \o Concat(Tail(ss))

\* "G", "L", "bd" and "f", zero-terminated, padded to 12 bytes.
StringPool == <<71, 0, 76, 0, 98, 100, 0, 102, 0, 0, 0, 0>>
LabelAt(sp) == sp
PinNameAt(sp) == sp + 2
DeviceNameAt(sp) == sp + 4
FeatureAt(sp) == sp + 7

BinaryEndValue == FLASH_START_ADDR + 8192

\* type 1, function 3 (I2C), pin fields 2, 3, 3, 3, 3
PinsWord == 1 + 3 * 8 + 128 * (2 + 3 * 32 + 3 * 1024 + 3 * 32768 + 3 * 1048576)

Kinds ==
    {"int7", "binend", "feature", "blockdev", "group7", "pinsfunc", "pinsname",
     "tagXX", "tagFF", "type99"}

\* The record of kind at place i of the table (1-based), sp the address of the
\* string pool.  An ID & Int record carries its place as value; the block
\* device at place i starts 4096 * i below, at or above BinaryEndValue + 4096.
Record(kind, i, sp) ==
    CASE kind = "int7" -> LE16(TYPE_ID_AND_INT) \o <<82, 80>> \o LE32(7) \o LE32(i)
      [] kind = "binend" ->
            LE16(TYPE_ID_AND_INT) \o <<82, 80>> \o ID_BINARY_END \o LE32(BinaryEndValue)
      [] kind = "feature" ->
            LE16(TYPE_ID_AND_STRING) \o <<82, 80>> \o ID_PROGRAM_FEATURE
                \o LE32(FeatureAt(sp))
      [] kind = "blockdev" ->
            LE16(TYPE_BLOCK_DEVICE) \o <<77, 80>> \o LE32(DeviceNameAt(sp))
                \o LE32(BinaryEndValue - 8192 + 4096 * i) \o LE32(4096) \o LE32(0)
                \o LE16(1)
      [] kind = "group7" ->
            LE16(TYPE_NAMED_GROUP) \o <<82, 80>> \o LE32(0) \o LE16(0) \o LE16(20562)
                \o LE32(7) \o LE32(LabelAt(sp))
      [] kind = "pinsfunc" -> LE16(TYPE_PINS_WITH_FUNC) \o <<82, 80>> \o LE32(PinsWord)
      [] kind = "pinsname" ->
            LE16(TYPE_PINS_WITH_NAME) \o <<82, 80>>
                \o LE32(IF i = 1 THEN 32 ELSE 4) \o LE32(PinNameAt(sp))
      [] kind = "tagXX" -> LE16(TYPE_ID_AND_INT) \o <<88, 88>> \o LE32(7) \o LE32(i)
      [] kind = "tagFF" -> LE16(TYPE_ID_AND_INT) \o <<255, 255>> \o LE32(7) \o LE32(i)
      [] kind = "type99" -> LE16(99) \o <<82, 80>> \o LE32(7) \o LE32(i)

\* The body at file offset base holding the records recs: pool, table, records.
Body(base, recs) ==
    LET n == Len(recs)
        first == FLASH_START_ADDR + base + Len(StringPool) + 4 * n
        before(k) == Len(Concat(SubSeq(recs, 1, k - 1)))
    IN StringPool \o Concat([k \in 1 .. n |-> LE32(first + before(k))]) \o Concat(recs)

\* The descriptor of a body at offset base with n entries: the table's bounds
\* (the end moved by delta, both lowered by low) and a mapping table address.
DescriptorBytes(base, n, delta, low) ==
    LET start == FLASH_START_ADDR + base + Len(StringPool) - low
    IN LE32(start) \o LE32(start + 4 * n + delta) \o LE32(FLASH_START_ADDR + base)

\* A whole file: pre junk bytes, the markers (if asked for) around gap, the body.
File(pre, magic, gap, endm, body) ==
    Junk(pre) \o (IF magic THEN BI_MAGIC ELSE <<>>) \o gap
        \o (IF endm THEN BI_END ELSE <<>>) \o body

\* A well-formed file with no prefix holding the records of the given kinds.
TableFile(kinds) ==
    LET recs == [i \in 1 .. Len(kinds) |-> Record(kinds[i], i, FLASH_START_ADDR + 20)]
    IN File(0, TRUE, DescriptorBytes(20, Len(kinds), 0, 0), TRUE, Body(20, recs))

KindSeqs == UNION {[1 .. n -> Kinds] : n \in 0 .. MaxEntries}

GapLens == {0, 4, 8, 12, 13, 16}
Deltas == {-10, -9, -2, 0, 1, 2, 3}
LocatorKinds == <<"int7", "blockdev">>

\* Files that exercise the table locator: any prefix, either marker missing,
\* a junk gap of some length or a descriptor with a moved end or a start
\* below the flash base, the table cut short.
LocatorFiles ==
    {Junk(n) : n \in 0 .. MaxPrefix}
    \cup
    {SubSeq(BI_MAGIC \o BI_END, 1, n) : n \in 1 .. 8}
    \cup
    {File(pre, magic, Junk(g), endm, Body(pre + 8 + g, <<>>)) :
        pre \in 0 .. MaxPrefix, magic \in BOOLEAN, g \in GapLens, endm \in BOOLEAN}
    \cup
    {LET base == pre + 20
         recs == [i \in 1 .. 2 |-> Record(LocatorKinds[i], i, FLASH_START_ADDR + base)]
         whole == File(pre, TRUE, DescriptorBytes(base, 2, delta, low), TRUE,
                       Body(base, recs))
     IN SubSeq(whole, 1, Len(whole) - cut) :
        pre \in 0 .. MaxPrefix, delta \in Deltas, low \in {0, FLASH_START_ADDR},
        cut \in {0, 40}}

\* Nothing read, nothing parsed yet.
Fresh ==
    /\ upos = 0 /\ bin = <<>> /\ pos = 0 /\ data = <<>>
    /\ desc = <<>> /\ entries = <<>> /\ idx = 1 /\ parsed = <<>>
    /\ result = "pending" /\ exc = "" /\ errors = <<>> /\ status = -1

\* PyDecl(file).parse() is about to run on file f: seek(0) done, nothing read.
ParseOf(f, rd) ==
    /\ Fresh
    /\ uf2 = <<>>
    /\ image = f
    /\ reader = rd
    /\ pc = "read_magic"

Init ==
    \/ \E f \in LocatorFiles, rd \in {"BytesIO", "BufferedReader"} : ParseOf(f, rd)
    \/ \E ks \in KindSeqs : ParseOf(TableFile(ks), "BytesIO")

Spec == Init /\ [][Next]_vars

\* The same runs under the fairness of a running process: a step of the
\* program that can be taken is taken.  Nothing says when, or whether, memory
\* runs out: the loop at the end of the file may go on for ever.
FairSpec ==
    /\ Init
    /\ [][Next]_vars
    /\ WF_vars(ReadUntil \/ Descriptor \/ FoldEntry \/ Return \/ ParseFailed \/ Verify)

-----------------------------------------------------------------------------
(* UF2 files: full blocks, then a last block cut short *)

\* Block i: a header and a trailer of byte h around a payload of byte i.
Uf2Block(i, h) ==
    [j \in 1 .. BLOCK_SIZE |->
        IF j > HEADER_SIZE /\ j <= HEADER_SIZE + DATA_SIZE THEN i ELSE h]

TrailLens == {0, 1, 32, 33, 100, 288, 300, 511}

Uf2File(n, trail, h) ==
    Concat([i \in 1 .. n |-> Uf2Block(i - 1, h)]) \o SubSeq(Uf2Block(n, h), 1, trail)

InitUF2 ==
    \E n \in 0 .. MaxBlocks, trail \in TrailLens, h \in {85, 255} :
        /\ Fresh
        /\ uf2 = Uf2File(n, trail, h)
        /\ image = <<>>
        /\ reader = "BytesIO"
        /\ pc = "uf2"

NextUF2 == Uf2Read

SpecUF2 == InitUF2 /\ [][NextUF2]_vars

-----------------------------------------------------------------------------
(* Files with one pins-with-function entry, the packed word taken from its   *)
(* fields: encoding type, function code, five 5-bit fields; whole or cut     *)
(* short.                                                                    *)

PinWord(type, func, p) ==
    LET low7 == type + 8 * func
        up == p[1] + 32 * p[2] + 1024 * p[3] + 32768 * p[4] + 1048576 * p[5]
    IN <<low7 + 128 * (up % 2), (up \div 2) % 256, (up \div 512) % 256, up \div 131072>>

PinFields == {<<a, b, c, d, e>> : a \in {2, 8, 31}, b \in {4, 5, 0}, c \in {9, 0},
                                  d \in {12, 31}, e \in {18, 16, 31}}

PinsFile(type, func, p) ==
    File(0, TRUE, DescriptorBytes(20, 1, 0, 0), TRUE,
         Body(20, <<LE16(TYPE_PINS_WITH_FUNC) \o <<82, 80>> \o PinWord(type, func, p)>>))

\* The bytes cut off the end of a pins file: none; 4, into the entry record;
\* 10, into the entry table; 28, the end marker and all behind it.
PinsCuts == {0, 4, 10, 28}

InitPins ==
    \E type \in 0 .. 3, func \in {0, 3, 9, 12, 15}, p \in PinFields, cut \in PinsCuts :
        LET whole == PinsFile(type, func, p)
        IN ParseOf(SubSeq(whole, 1, Len(whole) - cut), "BytesIO")

SpecPins == InitPins /\ [][Next]_vars

-----------------------------------------------------------------------------
(* Properties *)

\* The offsets at which the four bytes m occur in f.
Occurs(f, m) == {o \in 0 .. Len(f) - 4 : Slice(f, o, o + 4) = m}

\* The offsets from, from + 4, from + 8, ... at which m occurs in f.
AlignedAt(f, m, from) == {o \in Occurs(f, m) : o >= from /\ (o - from) % 4 = 0}

Least(S) == CHOOSE o \in S : \A x \in S : o <= x

\* The little-endian word at offset o of f.
WordAt(f, o) == f[o + 1] + 256 * f[o + 2] + 65536 * f[o + 3] + 16777216 * f[o + 4]

\* The decoder's outcome for entry i of the table.
Decoded(i) == parse_entry(image, reader, addr_to_bin_offset(entries[i]))

\* C1: a file shorter than the two markers together, or without a start
\* marker or without an end marker, makes parse end with the parse failure
\* (None): the marker scan stops at the end of the file.
C1_NoMarkerEndsInFailure ==
    (/\ pc = "read_magic"
     /\ pos = 0
     /\ \/ Len(image) < Len(BI_MAGIC) + Len(BI_END)
        \/ Occurs(image, BI_MAGIC) = {}
        \/ Occurs(image, BI_END) = {})
    ~> (result = "None")

\* C2: once the descriptor is unpacked with entries_end - entries_start not
\* divisible by 4, parse has returned None and raised nothing.
C2_NonDivisibleSpanFails ==
    (desc # <<>> /\ (desc[2] - desc[1]) % 4 # 0) => (result = "None" /\ exc = "")

\* The entry about to be decoded has a readable discriminant whose tag is
\* not b"RP" or b"MP", or whose type code has no decoder.
AnomalousEntry ==
    LET off == addr_to_bin_offset(entries[idx])
        h == IF off >= 0 THEN Read(image, off, 4) ELSE <<>>
    IN /\ Len(h) = 4
       /\ \/ SubSeq(h, 3, 4) \notin {<<82, 80>>, <<77, 80>>}
          \/ U16(SubSeq(h, 1, 2)) \notin EntryParsers

\* C3: the turn of the loop on an entry with a tag outside the allow-list (any
\* two bytes) or with an unregistered type code raises nothing, leaves the
\* dict as it is and goes on to the next entry.
C3_AnomaliesAbsorbed ==
    [][(pc = "entries" /\ idx <= Len(entries) /\ AnomalousEntry)
        => (pc' = "entries" /\ exc' = "" /\ idx' = idx + 1 /\ parsed' = parsed)]_vars

\* The pins given the field by one of the entries folded so far.
PinsGiven(field) ==
    {p \in 0 .. 31 :
        \E i \in 1 .. idx - 1 :
            /\ Decoded(i).status = "pair"
            /\ Decoded(i).k = PinsKey
            /\ p \in DOMAIN Decoded(i).v
            /\ field \in DOMAIN Decoded(i).v[p]}

\* C4: a pin given a function by one folded entry and a name by another
\* holds both fields in parsed["Pins"].
C4_PinFieldsMerged ==
    (pc = "entries" /\ PinsKey \in DOMAIN parsed) =>
        \A p \in PinsGiven("function") \cap PinsGiven("name") :
            /\ p \in DOMAIN parsed[PinsKey].items[1]
            /\ {"function", "name"} \subseteq DOMAIN parsed[PinsKey].items[1][p]

\* The values decoded for key k by entries 1..n, in entry order.
RECURSIVE ValuesFor(_, _)
ValuesFor(k, n) ==
    IF n = 0 THEN <<>>
    ELSE IF Decoded(n).status = "pair" /\ Decoded(n).k = k
         THEN Append(ValuesFor(k, n - 1), Decoded(n).v)
         ELSE ValuesFor(k, n - 1)

KeysDecoded(n) == {Decoded(i).k : i \in {j \in 1 .. n : Decoded(j).status = "pair"}}

\* C5: while and after the entries are folded (before the groups take their
\* data), every key but "Pins" holds the values decoded for it in entry order:
\* the bare value for one occurrence of a key that is not always a list, a list
\* of all of them otherwise; and the dict has no other key.
C5_FoldKeepsValuesInOrder ==
    pc = "entries" =>
        \A k \in KeysDecoded(idx - 1) \cup DOMAIN parsed :
            k # PinsKey =>
                LET vs == ValuesFor(k, idx - 1)
                    always == k.kind = "str" /\ k.val \in ALWAYS_A_LIST
                IN /\ vs # <<>>
                   /\ k \in DOMAIN parsed
                   /\ parsed[k] = IF Len(vs) = 1 /\ ~always
                                  THEN [list |-> FALSE, items |-> vs]
                                  ELSE [list |-> TRUE, items |-> vs]

\* C5's case: a key decoded three times holds the three values in order.
C5_Witness ==
    /\ pc = "entries"
    /\ IntKey(7) \in DOMAIN parsed
    /\ parsed[IntKey(7)] = [list |-> TRUE, items |-> <<IntVal(1), IntVal(2), IntVal(3)>>]

GroupsOf(d) == IF GroupKey \in DOMAIN d THEN d[GroupKey].items ELSE <<>>

\* The loop is over and parse is about to move the data and return.
AtReturn == pc = "entries" /\ idx > Len(entries)

\* C6 as stated: on return every group whose id is a key of the folded dict
\* holds that key's value as data and the key is gone; any other group has no
\* data.
C6_EveryMatchingGroupTakesData ==
    [][AtReturn =>
        /\ Len(GroupsOf(parsed')) = Len(GroupsOf(parsed))
        /\ \A i \in 1 .. Len(GroupsOf(parsed)) :
            LET k == IntKey(GroupsOf(parsed)[i].id)
                after == GroupsOf(parsed')[i]
            IN IF k \in DOMAIN parsed
               THEN /\ "data" \in DOMAIN after
                    /\ after.data = parsed[k]
                    /\ k \notin DOMAIN parsed'
               ELSE "data" \notin DOMAIN after]_vars

\* C6 amended: the first group of an id that is a key of the folded dict takes
\* that key's value as data and the key is gone; a later group of the same id
\* and a group whose id is no key have no data; the groups' other fields and
\* every other key are as they were.
C6_FirstMatchingGroupTakesData ==
    [][AtReturn =>
        /\ Len(GroupsOf(parsed')) = Len(GroupsOf(parsed))
        /\ \A i \in 1 .. Len(GroupsOf(parsed)) :
            LET before == GroupsOf(parsed)[i]
                k == IntKey(before.id)
                after == GroupsOf(parsed')[i]
                first == \A j \in 1 .. i - 1 : GroupsOf(parsed)[j].id # before.id
            IN /\ \A f \in DOMAIN before : after[f] = before[f]
               /\ IF k \in DOMAIN parsed /\ first
                  THEN /\ "data" \in DOMAIN after
                       /\ after.data = parsed[k]
                       /\ k \notin DOMAIN parsed'
                  ELSE "data" \notin DOMAIN after
        /\ DOMAIN parsed' =
              DOMAIN parsed \ {IntKey(GroupsOf(parsed)[i].id) : i \in 1 .. Len(GroupsOf(parsed))}
        /\ \A k \in DOMAIN parsed' : k # GroupKey => parsed'[k] = parsed[k]]_vars

\* C6's case: two groups of one id and a value under that id; the first group
\* has the data, the second has none, the key is gone.
C6_Witness ==
    /\ pc = "main"
    /\ result = "dict"
    /\ Len(GroupsOf(parsed)) = 2
    /\ "data" \in DOMAIN GroupsOf(parsed)[1]
    /\ GroupsOf(parsed)[1].data = [list |-> FALSE, items |-> <<IntVal(3)>>]
    /\ "data" \notin DOMAIN GroupsOf(parsed)[2]
    /\ IntKey(7) \notin DOMAIN parsed

\* The offset of a start marker that 12 bytes and the end marker follow.
RecordsAt(f) == {o \in Occurs(f, BI_MAGIC) : o + 16 \in Occurs(f, BI_END)}

\* C7 as stated: a start marker at any offset, followed by 12 bytes and the
\* end marker, is located: the scan for the start marker never passes the
\* first such record, and the descriptor unpacked is its 12 bytes.
C7_RecordLocatedAtAnyOffset ==
    (RecordsAt(image) # {} /\ Least(RecordsAt(image)) = Least(Occurs(image, BI_MAGIC))) =>
        LET o == Least(RecordsAt(image))
        IN /\ pc = "read_magic" => pos <= o
           /\ desc # <<>> =>
                desc = <<WordAt(image, o + 4), WordAt(image, o + 8), WordAt(image, o + 12)>>

\* C7 amended: the scan moves in 4-byte steps from offset 0.  It never passes a
\* start marker at a multiple of 4; from the first such marker on it never
\* passes an end marker a multiple of 4 further; what it hands on is the bytes
\* between the two; when these are 12 bytes the descriptor is their three
\* little-endian words, and when not parse returns None.  A scan that ran out
\* of memory at the end of the file has located nothing.
C7_AlignedRecordLocated ==
    LET M == AlignedAt(image, BI_MAGIC, 0)
    IN /\ pc = "read_magic" => \A o \in M : o >= pos
       /\ (pc \notin {"read_magic", "killed"} /\ exc # "MemoryError") =>
            /\ M # {}
            /\ LET o == Least(M)
                   E == AlignedAt(image, BI_END, o + 4)
               IN /\ pc = "read_end" =>
                        /\ \A e \in E : e >= pos
                        /\ data = Slice(image, o + 4, pos)
                  /\ pc \notin {"read_end", "lookup_string"} =>
                        /\ E # {}
                        /\ data = Slice(image, o + 4, Least(E))
                        /\ pc # "descriptor" =>
                            IF Least(E) = o + 16
                            THEN desc = <<WordAt(image, o + 4), WordAt(image, o + 8),
                                          WordAt(image, o + 12)>>
                            ELSE desc = <<>> /\ result = "None"

\* C7's case: a record behind a 4-byte prefix has been located and unpacked.
C7_Witness ==
    /\ pc = "entries"
    /\ Least(AlignedAt(image, BI_MAGIC, 0)) = 4
    /\ desc = <<WordAt(image, 8), WordAt(image, 12), WordAt(image, 16)>>
    /\ Len(entries) = 2

\* Byte j (1-based) of the payloads of the blocks of the .uf2 file, in order.
PayloadByte(j) ==
    uf2[((j - 1) \div DATA_SIZE) * BLOCK_SIZE + HEADER_SIZE + ((j - 1) % DATA_SIZE) + 1]

\* C8 as stated: the unwrapped image is the payloads of the full-size blocks
\* and nothing else.
C8_OnlyFullBlocksContribute ==
    pc = "uf2_done" =>
        /\ Len(bin) = DATA_SIZE * (Len(uf2) \div BLOCK_SIZE)
        /\ \A j \in 1 .. Len(bin) : bin[j] = PayloadByte(j)

\* C8 amended: the unwrapped image is bytes 32..287 of every block read, in
\* order; a last block shorter than 512 bytes gives those of these bytes it
\* has.
C8_EveryBlockContributesItsPayload ==
    pc = "uf2_done" =>
        /\ Len(bin) = DATA_SIZE * (Len(uf2) \div BLOCK_SIZE)
                      + Max(0, Min(Len(uf2) % BLOCK_SIZE, HEADER_SIZE + DATA_SIZE)
                               - HEADER_SIZE)
        /\ \A j \in 1 .. Len(bin) : bin[j] = PayloadByte(j)

\* C8's case: two full blocks and a last block of 100 bytes have been read.
C8_Witness ==
    /\ pc = "uf2_done"
    /\ Len(uf2) = 2 * BLOCK_SIZE + 100
    /\ Len(bin) = 2 * DATA_SIZE + 68

\* C9: after parse returned a dict, the block devices reported are those that
\* start below the declared binary end, and the run ends with status 1 exactly
\* when one was reported (and with status 0 otherwise).
C9_ReportsExactlyTheOverlaps ==
    (result = "dict" /\ pc \in {"exit", "raised"}) =>
        /\ status = IF errors # <<>> THEN 1 ELSE 0
        /\ BinaryEndIsInt(parsed) =>
             errors = SelectSeq(BlockDevices(parsed),
                                LAMBDA bd : bd.address < BinaryEnd(parsed))

\* The packed word of the pins entry of the file, and its bit fields.
PinsWordBytes == Slice(image, addr_to_bin_offset(entries[1]) + 4,
                       addr_to_bin_offset(entries[1]) + 8)
Bits(b, from, n) ==
    IF n = 0 THEN 0
    ELSE LET bit(i) == IF i < n THEN Bit(b, from + i) * (2 ^ i) ELSE 0
         IN bit(0) + bit(1) + bit(2) + bit(3) + bit(4)

\* C10: the pins decoded from the packed word are the five 5-bit fields from
\* bit 7 up for encoding type 1 and the inclusive range start..end (bits
\* 12..16 and 7..11) for type 2, each mapped to the table name of the function
\* code in bits 3..6 (None for a code the table does not have); pins 2, 5, 9,
\* 12, 18 with code 3 give those five pins with "I2C", and start 4, end 8
\* gives pins 4..8.
C10_PinsWithFuncDecoded ==
    result = "dict" =>
        LET w == PinsWordBytes
            type == Bits(w, 0, 3)
            code == Bits(w, 3, 4)
            m == parsed[PinsKey].items[1]
        IN /\ type = 1 => DOMAIN m = {Bits(w, 7 + 5 * k, 5) : k \in 0 .. 4}
           /\ type = 2 => DOMAIN m = Bits(w, 12, 5) .. Bits(w, 7, 5)
           /\ \A p \in DOMAIN m : m[p] = [function |-> GPIO_FUNCS(code)]
           /\ w = PinWord(1, 3, <<2, 5, 9, 12, 18>>) =>
                m = [p \in {2, 5, 9, 12, 18} |-> [function |-> "I2C"]]
           /\ (type = 2 /\ Bits(w, 12, 5) = 4 /\ Bits(w, 7, 5) = 8) =>
                DOMAIN m = {4, 5, 6, 7, 8}

\* C10's case: the word of pins 2, 5, 9, 12, 18 with function code 3 decoded.
C10_Witness ==
    /\ pc = "main"
    /\ result = "dict"
    /\ PinsWordBytes = PinWord(1, 3, <<2, 5, 9, 12, 18>>)
    /\ DOMAIN parsed[PinsKey].items[1] = {2, 5, 9, 12, 18}

=============================================================================
